---- MODULE Spec2Model ----
(***************************************************************************)
(* A model of the CDP proxy server of SkipJSDebugger                       *)
(* (cdp_server/go/main.go): the acceptor (websocket_handler), the session  *)
(* task (start_transmiter_task), the two transmitter loops (transimiter),   *)
(* the two message handlers and the Framed Connection (MyWSConnection) with *)
(* its reader task, its writer task and its two channels.                  *)
(*                                                                         *)
(* Every goroutine is a process with a program counter; one action is one  *)
(* step between two accesses to shared state (a channel, the closed flag   *)
(* under its mutex, the socket, the registry).  A Go panic that nothing    *)
(* recovers and log.Fatal both end the whole process: "process" records    *)
(* it and no action is enabled afterwards.                                 *)
(***************************************************************************)
EXTENDS Integers, Sequences, FiniteSets, TLC

(***************************************************************************)
(* Bounds of the model.                                                    *)
(***************************************************************************)
\* incoming HTTP requests the environment makes
MaxRequests == 2
\* frames the peers send over all sockets together, in Spec
MaxFrames == 1
\* frames the peers of the one session send, in SessionSpec
SessionFrames == 2
\* frames the peers of the one session send, in HandlerSpec
HandlerFrames == 1
\* sockets the peers close (or the network breaks) over all sessions together
MaxFailures == 1
\* calls of WriteMessage, and of ReadMessage, in CloseSpec
MaxCalls == 2
\* tabs of the browser, in ExtensionSpec
MaxTabs == 2
\* clicks on the action of the extension, in ExtensionSpec
MaxClicks == 3

\* const buffer_size = 1024 * 1024 : the capacity of both channels
buffer_size == 1024 * 1024

Requests == 1..MaxRequests
Paths == {"/p/1", "/p/2"}
Sides == {"devtools", "web"}
Conns == Requests \X Sides
\* the two directions of a session, named as in ConnectionInfo.des
Dirs == {"web -> devtools", "devtools -> web"}
Transmitters == Requests \X Dirs

\* the five calls of Close() on the devtools connection of a session: the
\* deferred ones of the reader goroutine (line 132), of start (line 128), of
\* both transimiter (lines 357, 358) and of start_transmiter_task (line 311)
Closers == {"reader", "start", "transimiter web -> devtools",
            "transimiter devtools -> web", "start_transmiter_task"}
\* the callers of the two methods that test is_Closed() before a channel
Users == {"WriteMessage", "ReadMessage"}

\* tab ids
Tabs == 1..MaxTabs
\* the runs of the action.onClicked listener; the window that run k opens
\* has the id k (the browser gives every window a fresh id)
Clicks == 1..MaxClicks

\* flag.String("debugger", "lovedebug", ...)
MYDEBUGGER_NAME == "lovedebug"
Author == "From 52pj"

(***************************************************************************)
(* Frames.  A frame is the sequence of the lexical pieces of its text; a   *)
(* substring test is a test for a piece, and json.Unmarshal reads the      *)
(* pieces it knows, ignores the members it does not consult and fails on   *)
(* a piece that is no JSON.  A key that occurs twice takes its last value, *)
(* as encoding/json does.                                                  *)
(***************************************************************************)
TokId0 == "\"id\":0"
TokId7 == "\"id\":7"
TokResult == "\"result\":{}"
TokPaused == "\"method\":\"Debugger.paused\""
TokResumed == "\"method\":\"Debugger.resumed\""
TokStepOut == "\"method\":\"Debugger.stepOut\",\"params\":{}"
TokResume == "\"method\":\"Debugger.resume\",\"params\":{\"terminateOnResume\":false}"
TokReasonOther == "\"reason\":\"other\""
TokReasonException == "\"reason\":\"exception\""
TokHitNone == "\"hitBreakpoints\":[]"
TokHitBp1 == "\"hitBreakpoints\":[\"bp1\"]"
TokFramesNone == "\"callFrames\":[]"
TokFramesMine == "\"callFrames\":[{\"functionName\":\"lovedebug\"},{\"functionName\":\"userCode\"}]"
TokFramesTrap == "\"callFrames\":[{\"functionName\":\"trap_xyz\"}]"
TokNotJson == "not json"
TokOverlay == "\"method\":\"Overlay.setPausedInDebuggerMessage\""
TokPausedMsg == "Paused in debugger"
TokSurprise == "Paused in debugger - Surprise From 52pj"
TokGetDocument == "\"method\":\"DOM.getDocument\""

MethodToks == {TokPaused, TokResumed, TokStepOut, TokResume, TokOverlay, TokGetDocument}
ReasonToks == {TokReasonOther, TokReasonException}
HitToks == {TokHitNone, TokHitBp1}
FramesToks == {TokFramesNone, TokFramesMine, TokFramesTrap}

\* nil []byte, what a receive from a closed and drained channel yields
Nil == << >>

\* strings.Contains(string(msg), sub)
Contains(msg, sub) == \E i \in 1..Len(msg) : msg[i] = sub

\* the last piece of msg that is in toks, "" when there is none
LastOf(msg, toks) ==
    LET at == {i \in 1..Len(msg) : msg[i] \in toks}
    IN  IF at = {} THEN ""
        ELSE msg[CHOOSE i \in at : \A j \in at : j <= i]

\* json.Unmarshal(msg, &cdp_res) into DebuggerPaused: err is TRUE for text
\* that is no JSON document (nil and the empty text included)
Unmarshal(msg) ==
    [ err |-> (msg = Nil) \/ Contains(msg, TokNotJson),
      Method |-> LastOf(msg, MethodToks),
      Params |->
        [ Reason |-> LastOf(msg, ReasonToks),
          HitBreakpoints |->
            IF LastOf(msg, HitToks) = TokHitBp1 THEN <<"bp1">> ELSE << >>,
          CallFrames |->
            CASE LastOf(msg, FramesToks) = TokFramesMine -> <<"lovedebug", "userCode">>
              [] LastOf(msg, FramesToks) = TokFramesTrap -> <<"trap_xyz">>
              [] OTHER -> << >> ] ]

\* the two literals process_debugger_paused injects
StepOutCommand == <<TokId0, TokStepOut>>
ResumeCommand == <<TokId0, TokResume>>


(***************************************************************************)
(* The message handlers.                                                   *)
(***************************************************************************)
\* strings.Replace with n = -1: every piece that holds the old text is replaced
ReplaceAll(msg) ==
    [i \in 1..Len(msg) |-> IF msg[i] = TokPausedMsg THEN TokSurprise ELSE msg[i]]

\* strings.Replace(s, "Paused in debugger", "Paused in debugger - Surprise "+Author, 1):
\* the first piece that holds the old text gets the new text in its place
ReplaceFirst(msg) ==
    LET at == {i \in 1..Len(msg) : msg[i] = TokPausedMsg}
    IN  IF at = {} THEN msg
        ELSE [msg EXCEPT ![CHOOSE i \in at : \A j \in at : i <= j] = TokSurprise]

\* handle_msg_from_devtools: the frame to forward; is_ok is always true
handle_msg_from_devtools(msg) ==
    IF Contains(msg, TokOverlay) THEN ReplaceFirst(msg) ELSE msg

\* is_js_debugger with || for &&
is_js_debugger_either(params) ==
    params.Reason = TokReasonOther \/ Len(params.HitBreakpoints) = 0

\* process_debugger_paused, line 417
is_js_debugger(params) ==
    params.Reason = TokReasonOther /\ Len(params.HitBreakpoints) = 0

\* process_debugger_paused, line 423; only evaluated for a non-empty CallFrames
is_my_debugger(params) == params.CallFrames[1] = MYDEBUGGER_NAME

\* handle_msg_from_web with the Debugger.paused rule tried before the drop of
\* the frames with "id":0
handle_msg_from_web_paused_first(msg) ==
    LET cdp_res == Unmarshal(msg) IN
    IF ~cdp_res.err /\ cdp_res.Method = TokPaused /\ is_js_debugger(cdp_res.Params)
    THEN IF Len(cdp_res.Params.CallFrames) = 0 THEN "panic"
         ELSE IF is_my_debugger(cdp_res.Params) THEN "stepOut"
         ELSE "resume"
    ELSE IF Contains(msg, TokId0) THEN "drop"
    ELSE "forward"

\* What handle_msg_from_web does with msg up to its first access to shared
\* state: "drop" (return nil, false at line 400), "forward" (return msg,
\* true at line 411), "panic" (CallFrames[0] of an empty slice), or
\* "stepOut" / "resume" (the WriteMessage at line 427 / 436 comes next).
handle_msg_from_web(msg) ==
    LET cdp_res == Unmarshal(msg) IN
    IF Contains(msg, TokId0) THEN "drop"
    ELSE IF ~cdp_res.err /\ cdp_res.Method = TokPaused
         THEN IF ~is_js_debugger(cdp_res.Params) THEN "forward"
              ELSE IF Len(cdp_res.Params.CallFrames) = 0 THEN "panic"
              ELSE IF is_my_debugger(cdp_res.Params) THEN "stepOut"
              ELSE "resume"
         ELSE "forward"

\* the literal of each injection
InjectedCommand(kind) == IF kind = "stepOut" THEN StepOutCommand ELSE ResumeCommand

(***************************************************************************)
(* Frames the peers send in the concurrent specification.                  *)
(***************************************************************************)
TrapPaused == <<TokPaused, TokReasonOther, TokHitNone, TokFramesTrap>>
RealPaused == <<TokPaused, TokReasonOther, TokHitBp1, TokFramesTrap>>
EmptyPaused == <<TokPaused, TokReasonOther, TokHitNone, TokFramesNone>>
EchoResult == <<TokId0, TokResult>>
GetDocument == <<TokId7, TokGetDocument>>
OverlayMessage == <<TokId7, TokOverlay, TokPausedMsg, TokPausedMsg>>

WebInput == {TrapPaused, RealPaused, EmptyPaused, EchoResult}
DevtoolsInput == {GetDocument, OverlayMessage}
Input(side) == IF side = "web" THEN WebInput ELSE DevtoolsInput

(***************************************************************************)
(* Frames of every shape the handlers tell apart, for HandlerSpec: an      *)
(* optional id, a method, the members of params, and an optional tail (an  *)
(* "id":0 nested further in, or text that is no JSON).                     *)
(***************************************************************************)
AllWebFrames ==
    { id \o method \o reason \o hit \o frames \o tail :
        id \in {<< >>, <<TokId0>>},
        method \in {<< >>, <<TokPaused>>, <<TokResumed>>},
        reason \in {<< >>, <<TokReasonOther>>, <<TokReasonException>>},
        hit \in {<<TokHitNone>>, <<TokHitBp1>>},
        frames \in {<<TokFramesNone>>, <<TokFramesMine>>, <<TokFramesTrap>>},
        tail \in {<< >>, <<TokId0>>, <<TokNotJson>>} }

AllDevtoolsFrames ==
    { <<TokId7>> \o method \o text :
        method \in {<<TokGetDocument>>, <<TokOverlay>>},
        text \in {<< >>, <<TokPausedMsg>>, <<TokPausedMsg, TokPausedMsg>>,
                  <<TokResult, TokPausedMsg, TokId0, TokPausedMsg>>} }

AllFrames(side) == IF side = "web" THEN AllWebFrames ELSE AllDevtoolsFrames

(***************************************************************************)
(* State.                                                                  *)
(***************************************************************************)
VARIABLES
    process,         \* "running", or how the process ended
    CONNECTION_POOL, \* the paths whose entry is non-nil
    req,             \* websocket_handler of each request: pc and path
    task,            \* start_transmiter_task of each request: pc
    is_closed,       \* MyWSConnection.is_closed
    chan_closed,     \* which of the two channels close() has closed
    conn_closed,     \* conn.Close() has been called on the socket
    m,               \* MyWSConnection.m: "free" or the call that holds it
    closer,          \* the calls of Close() taken statement by statement: pc
    user,            \* the same for WriteMessage and ReadMessage: pc, after, calls
    msg_sender,      \* buffered content of MyWSConnection.msg_sender
    msg_reciver,     \* buffered content of MyWSConnection.msg_reciver
    reader,          \* the goroutine of start(), lines 131-145: pc and msg
    writer,          \* the loop of start(), lines 147-155: pc and msg
    trans,           \* transimiter of each direction: pc, message, injection
    sock_failed,     \* the peer closed the socket or the network failed
    sock_read,       \* history: frames conn.ReadMessage returned
    sock_written,    \* history: frames conn.WriteMessage wrote
    forwarded,       \* history: frames the handlers returned with is_ok true,
                     \* by the connection they are to be written to
    \* the extension, OpenDevtoolsPage/background.js
    tabToDebugger,   \* Map tab id -> window id; 0 where the map has no entry
    debuggerToTab,   \* Map window id -> tab id; 0 where the map has no entry
    tabs,            \* the tabs that are open in the browser
    windows,         \* the debugger windows that are open in the browser
    click            \* the runs of the action.onClicked listener: pc and tab

vars == <<process, CONNECTION_POOL, req, task, is_closed, chan_closed,
          conn_closed, m, closer, user, msg_sender, msg_reciver, reader,
          writer, trans, sock_failed, sock_read, sock_written, forwarded,
          tabToDebugger, debuggerToTab, tabs, windows, click>>

extVars == <<tabToDebugger, debuggerToTab, tabs, windows, click>>

lockVars == <<m, closer, user>>
connVars == <<is_closed, chan_closed, conn_closed, lockVars>>
chanVars == <<msg_sender, msg_reciver>>
sockVars == <<sock_failed, sock_read, sock_written, forwarded>>
taskVars == <<req, task, reader, writer, trans>>

\* background.js as it is loaded: both maps empty (lines 23, 25), no
\* listener running, every tab open and no debugger window
ExtensionInit ==
    /\ tabToDebugger = [t \in Tabs |-> 0]
    /\ debuggerToTab = [w \in Clicks |-> 0]
    /\ tabs = Tabs
    /\ windows = {}
    /\ click = [k \in Clicks |-> [pc |-> "idle", tab |-> 0]]

Init ==
    /\ process = "running"
    /\ CONNECTION_POOL = {}
    /\ req = [r \in Requests |-> [pc |-> "none", path |-> ""]]
    /\ task = [r \in Requests |-> "off"]
    /\ is_closed = [c \in Conns |-> FALSE]
    /\ chan_closed = [c \in Conns |-> [msg_sender |-> FALSE, msg_reciver |-> FALSE]]
    /\ conn_closed = [c \in Conns |-> FALSE]
    /\ m = [c \in Conns |-> "free"]
    /\ closer = [k \in Closers |-> "idle"]
    /\ user = [u \in Users |-> [pc |-> "idle", after |-> FALSE, calls |-> 0]]
    /\ msg_sender = [c \in Conns |-> << >>]
    /\ msg_reciver = [c \in Conns |-> << >>]
    /\ reader = [c \in Conns |-> [pc |-> "off", msg |-> Nil]]
    /\ writer = [c \in Conns |-> [pc |-> "off", msg |-> Nil]]
    /\ trans = [t \in Transmitters |-> [pc |-> "off", message |-> Nil, inj |-> Nil]]
    /\ sock_failed = [c \in Conns |-> FALSE]
    /\ sock_read = [c \in Conns |-> << >>]
    /\ sock_written = [c \in Conns |-> << >>]
    /\ forwarded = [c \in Conns |-> << >>]
    /\ ExtensionInit


(***************************************************************************)
(* MyWSConnection.                                                         *)
(***************************************************************************)
Running == process = "running"

DevtoolsOf(r) == <<r, "devtools">>
WebOf(r) == <<r, "web">>

\* Close(), lines 176-186, is one critical section of the mutex m.  No
\* other task reads is_closed without m, and a channel operation that falls
\* between two statements of the section has the outcome it would have just
\* before or just after the section, so the section is one step.  (CloseSpec
\* below takes the section statement by statement.)
Close(c) ==
    /\ m[c] = "free"
    /\ UNCHANGED lockVars
    /\ chan_closed' = [chan_closed EXCEPT ![c] =
            IF is_closed[c] THEN @
            ELSE [msg_sender |-> TRUE, msg_reciver |-> TRUE]]
    /\ is_closed' = [is_closed EXCEPT ![c] = TRUE]
    /\ conn_closed' = [conn_closed EXCEPT ![c] = TRUE]

\* frames read from all sockets so far
RECURSIVE CountRead(_)
CountRead(cs) ==
    IF cs = {} THEN 0
    ELSE LET c == CHOOSE x \in cs : TRUE
         IN  Len(sock_read[c]) + CountRead(cs \ {c})

\* The reader goroutine, lines 134-141: conn.ReadMessage() returns frame f
\* and c.is_Closed() is false.  (A frame that arrives when is_closed is
\* already true is discarded at line 140, and conn.Close() has been called
\* in the same critical section that set is_closed: that run ends as
\* ReaderReadError does, so the read and the test are one step.)
ReaderRead(c, f) ==
    /\ Running /\ reader[c].pc = "read"
    /\ ~conn_closed[c] /\ ~sock_failed[c] /\ ~is_closed[c]
    /\ sock_read' = [sock_read EXCEPT ![c] = Append(@, f)]
    /\ reader' = [reader EXCEPT ![c] = [pc |-> "send", msg |-> f]]
    /\ UNCHANGED <<process, CONNECTION_POOL, extVars, req, task, connVars, chanVars,
                   writer, trans, sock_failed, sock_written, forwarded>>

\* lines 134-140 and 132: conn.ReadMessage() fails (or is_Closed() is true),
\* the goroutine returns and its deferred c.Close() runs.  The failure is
\* permanent and seen by this goroutine alone until Close(), so both are one step.
ReaderReadError(c) ==
    /\ Running /\ reader[c].pc = "read"
    /\ conn_closed[c] \/ sock_failed[c] \/ is_closed[c]
    /\ Close(c)
    /\ reader' = [reader EXCEPT ![c] = [pc |-> "done", msg |-> Nil]]
    /\ UNCHANGED <<process, CONNECTION_POOL, extVars, req, task, chanVars,
                   writer, trans, sockVars>>

\* line 142: c.msg_reciver <- msg; a send on a closed channel panics
ReaderSend(c) ==
    /\ Running /\ reader[c].pc = "send"
    /\ IF chan_closed[c].msg_reciver
       THEN /\ process' = "panic: send on closed channel"
            /\ UNCHANGED <<msg_reciver, reader>>
       ELSE /\ Len(msg_reciver[c]) < buffer_size
            /\ msg_reciver' = [msg_reciver EXCEPT ![c] = Append(@, reader[c].msg)]
            /\ reader' = [reader EXCEPT ![c] = [pc |-> "read", msg |-> Nil]]
            /\ UNCHANGED process
    /\ UNCHANGED <<CONNECTION_POOL, extVars, req, task, connVars, msg_sender,
                   writer, trans, sockVars>>

\* the loop of start() over a channel that hands out its newest frame first
WriterRound_takes_last(c) ==
    /\ Running /\ writer[c].pc = "recv"
    /\ IF msg_sender[c] # << >> /\ ~(is_closed[c] \/ conn_closed[c] \/ sock_failed[c])
       THEN /\ msg_sender' = [msg_sender EXCEPT ![c] = SubSeq(@, 1, Len(@) - 1)]
            /\ sock_written' = [sock_written EXCEPT ![c] =
                    Append(@, msg_sender[c][Len(msg_sender[c])])]
            /\ UNCHANGED <<writer, connVars>>
       ELSE /\ msg_sender[c] # << >> \/ chan_closed[c].msg_sender
            /\ msg_sender' = [msg_sender EXCEPT ![c] =
                    IF @ = << >> THEN @ ELSE Tail(@)]
            /\ Close(c)
            /\ writer' = [writer EXCEPT ![c].pc = "done"]
            /\ UNCHANGED sock_written
    /\ UNCHANGED <<process, CONNECTION_POOL, extVars, req, task, msg_reciver,
                   reader, trans, sock_failed, sock_read, forwarded>>

\* The loop of start(), lines 147-155, and its deferred c.Close(), line 128:
\* one round of
\*   for msg := range c.msg_sender { if c.is_Closed() return; conn.WriteMessage }
\* The range ends when the channel is closed and drained.  A frame taken
\* from the channel is held by this goroutine alone, the test and the write fail
\* together once Close() has run, and a failure is permanent, so a round,
\* with the Close() that follows a failed one, is one step.
WriterRound(c) ==
    /\ Running /\ writer[c].pc = "recv"
    /\ IF msg_sender[c] # << >> /\ ~(is_closed[c] \/ conn_closed[c] \/ sock_failed[c])
       THEN /\ msg_sender' = [msg_sender EXCEPT ![c] = Tail(@)]
            /\ sock_written' = [sock_written EXCEPT ![c] =
                    Append(@, Head(msg_sender[c]))]
            /\ UNCHANGED <<writer, connVars>>
       ELSE /\ msg_sender[c] # << >> \/ chan_closed[c].msg_sender
            /\ msg_sender' = [msg_sender EXCEPT ![c] =
                    IF @ = << >> THEN @ ELSE Tail(@)]
            /\ Close(c)
            /\ writer' = [writer EXCEPT ![c].pc = "done"]
            /\ UNCHANGED sock_written
    /\ UNCHANGED <<process, CONNECTION_POOL, extVars, req, task, msg_reciver,
                   reader, trans, sock_failed, sock_read, forwarded>>

\* sockets that have failed so far
CountFailed == Cardinality({c \in Conns : sock_failed[c]})

\* the environment: the peer of an open socket goes away
SocketFail(c) ==
    /\ Running
    /\ CountFailed < MaxFailures
    /\ IF c[2] = "devtools" THEN req[c[1]].pc = "spawned"
       ELSE task[c[1]] \notin {"off", "dial"}
    /\ ~conn_closed[c] /\ ~sock_failed[c]
    /\ sock_failed' = [sock_failed EXCEPT ![c] = TRUE]
    /\ UNCHANGED <<process, CONNECTION_POOL, extVars, taskVars, connVars, chanVars,
                   sock_read, sock_written, forwarded>>


(***************************************************************************)
(* transimiter, lines 355-383.                                             *)
(***************************************************************************)
From(t) == IF t[2] = "web -> devtools" THEN WebOf(t[1]) ELSE DevtoolsOf(t[1])
To(t) == IF t[2] = "web -> devtools" THEN DevtoolsOf(t[1]) ELSE WebOf(t[1])

\* line 363 -> ReadMessage line 169: if c.is_Closed() return an error; then
\* the loop returns and the deferred _from.Close(), _to.Close() and
\* wg.Done() run (lines 356-358).  _from is closed already, so the first is
\* void, and wg.Done() is seen by wg.Wait() alone: the exit is one step.
ReadMessageCheck(t) ==
    /\ Running /\ trans[t].pc = "read"
    /\ IF is_closed[From(t)]
       THEN /\ Close(To(t))
            /\ trans' = [trans EXCEPT ![t].pc = "done"]
       ELSE /\ trans' = [trans EXCEPT ![t].pc = "recv"]
            /\ UNCHANGED connVars
    /\ UNCHANGED <<process, CONNECTION_POOL, extVars, req, task, chanVars,
                   reader, writer, sockVars>>

\* ReadMessage line 172-173: msg = <-c.msg_reciver; return msg, nil.  A
\* receive from a closed channel yields what is still buffered, and then the
\* zero value nil without blocking.
ReadMessageRecv(t) ==
    /\ Running /\ trans[t].pc = "recv"
    /\ IF msg_reciver[From(t)] # << >>
       THEN /\ trans' = [trans EXCEPT ![t].pc = "handle",
                                      ![t].message = Head(msg_reciver[From(t)])]
            /\ msg_reciver' = [msg_reciver EXCEPT ![From(t)] = Tail(@)]
       ELSE /\ chan_closed[From(t)].msg_reciver
            /\ trans' = [trans EXCEPT ![t].pc = "handle", ![t].message = Nil]
            /\ UNCHANGED msg_reciver
    /\ UNCHANGED <<process, CONNECTION_POOL, extVars, req, task, connVars, msg_sender,
                   reader, writer, sockVars>>

\* line 373 for "devtools -> web": handle_msg_from_devtools, then is_ok
HandleFromDevtools(t) ==
    /\ Running /\ trans[t].pc = "handle" /\ t[2] = "devtools -> web"
    /\ trans' = [trans EXCEPT ![t].pc = "write",
                              ![t].message = handle_msg_from_devtools(@)]
    /\ forwarded' = [forwarded EXCEPT ![To(t)] =
            Append(@, handle_msg_from_devtools(trans[t].message))]
    /\ UNCHANGED <<process, CONNECTION_POOL, extVars, req, task, connVars, chanVars,
                   reader, writer, sock_failed, sock_read, sock_written>>

\* the web -> devtools handler with process_debugger_paused returning true
\* (frame handled, to be dropped) when its WriteMessage fails
HandleFromWeb_drop_on_failure(t) ==
    /\ Running /\ trans[t].pc = "handle" /\ t[2] = "web -> devtools"
    /\ LET todo == handle_msg_from_web(trans[t].message) IN
       CASE todo = "drop" ->
              /\ trans' = [trans EXCEPT ![t].pc = "read", ![t].message = Nil]
              /\ UNCHANGED <<process, forwarded>>
         [] todo = "forward" ->
              /\ trans' = [trans EXCEPT ![t].pc = "write"]
              /\ forwarded' = [forwarded EXCEPT ![To(t)] = Append(@, trans[t].message)]
              /\ UNCHANGED process
         [] todo = "panic" ->
              /\ process' = "panic: index out of range"
              /\ UNCHANGED <<trans, forwarded>>
         [] OTHER ->
              /\ trans' = [trans EXCEPT
                    ![t].pc = IF is_closed[From(t)] THEN "read" ELSE "inject",
                    ![t].message = IF is_closed[From(t)] THEN Nil ELSE @,
                    ![t].inj = IF is_closed[From(t)] THEN Nil ELSE InjectedCommand(todo)]
              /\ UNCHANGED <<process, forwarded>>
    /\ UNCHANGED <<CONNECTION_POOL, extVars, req, task, connVars, chanVars,
                   reader, writer, sock_failed, sock_read, sock_written>>

\* line 373 for "web -> devtools": handle_msg_from_web up to the is_Closed
\* of the WriteMessage of process_debugger_paused (line 427 / 436 -> 160).
\* A failed WriteMessage makes process_debugger_paused return false and the
\* frame is forwarded.
HandleFromWeb(t) ==
    /\ Running /\ trans[t].pc = "handle" /\ t[2] = "web -> devtools"
    /\ LET todo == handle_msg_from_web(trans[t].message) IN
       CASE todo = "drop" ->
              /\ trans' = [trans EXCEPT ![t].pc = "read", ![t].message = Nil]
              /\ UNCHANGED <<process, forwarded>>
         [] todo = "forward" ->
              /\ trans' = [trans EXCEPT ![t].pc = "write"]
              /\ forwarded' = [forwarded EXCEPT ![To(t)] = Append(@, trans[t].message)]
              /\ UNCHANGED process
         [] todo = "panic" ->
              /\ process' = "panic: index out of range"
              /\ UNCHANGED <<trans, forwarded>>
         [] OTHER ->
              /\ trans' = [trans EXCEPT
                    ![t].pc = IF is_closed[From(t)] THEN "write" ELSE "inject",
                    ![t].inj = IF is_closed[From(t)] THEN Nil ELSE InjectedCommand(todo)]
              /\ forwarded' = [forwarded EXCEPT ![To(t)] =
                    IF is_closed[From(t)] THEN Append(@, trans[t].message) ELSE @]
              /\ UNCHANGED process
    /\ UNCHANGED <<CONNECTION_POOL, extVars, req, task, connVars, chanVars,
                   reader, writer, sock_failed, sock_read, sock_written>>

\* the injection written by the handler itself with _from.conn.WriteMessage
InjectSend_to_socket(t) ==
    /\ Running /\ trans[t].pc = "inject"
    /\ ~conn_closed[From(t)]
    /\ sock_written' = [sock_written EXCEPT ![From(t)] = Append(@, trans[t].inj)]
    /\ trans' = [trans EXCEPT ![t] = [pc |-> "read", message |-> Nil, inj |-> Nil]]
    /\ UNCHANGED <<process, CONNECTION_POOL, extVars, req, task, connVars, chanVars,
                   reader, writer, sock_failed, sock_read, forwarded>>

\* WriteMessage line 163 for the injected command: c.msg_sender <- msg on
\* _from; then process_debugger_paused returns true and the frame is dropped
InjectSend(t) ==
    /\ Running /\ trans[t].pc = "inject"
    /\ IF chan_closed[From(t)].msg_sender
       THEN /\ process' = "panic: send on closed channel"
            /\ UNCHANGED <<msg_sender, trans>>
       ELSE /\ Len(msg_sender[From(t)]) < buffer_size
            /\ msg_sender' = [msg_sender EXCEPT ![From(t)] = Append(@, trans[t].inj)]
            /\ trans' = [trans EXCEPT ![t] = [pc |-> "read", message |-> Nil, inj |-> Nil]]
            /\ UNCHANGED process
    /\ UNCHANGED <<CONNECTION_POOL, extVars, req, task, connVars, msg_reciver,
                   reader, writer, sockVars>>

\* line 377 -> WriteMessage line 160: if c.is_Closed() return an error; then
\* the loop returns and the deferred _from.Close(), _to.Close() and
\* wg.Done() run; _to is closed already, so the second is void.
WriteMessageCheck(t) ==
    /\ Running /\ trans[t].pc = "write"
    /\ IF is_closed[To(t)]
       THEN /\ Close(From(t))
            /\ trans' = [trans EXCEPT ![t] = [pc |-> "done", message |-> Nil, inj |-> Nil]]
       ELSE /\ trans' = [trans EXCEPT ![t].pc = "send"]
            /\ UNCHANGED connVars
    /\ UNCHANGED <<process, CONNECTION_POOL, extVars, req, task, chanVars,
                   reader, writer, sockVars>>

\* WriteMessage that returns nil without the send
WriteMessageSend_skipping(t) ==
    /\ Running /\ trans[t].pc = "send"
    /\ trans' = [trans EXCEPT ![t] = [pc |-> "read", message |-> Nil, inj |-> Nil]]
    /\ UNCHANGED <<process, CONNECTION_POOL, extVars, req, task, connVars, chanVars,
                   reader, writer, sockVars>>

\* WriteMessage line 163: c.msg_sender <- msg on _to
WriteMessageSend(t) ==
    /\ Running /\ trans[t].pc = "send"
    /\ IF chan_closed[To(t)].msg_sender
       THEN /\ process' = "panic: send on closed channel"
            /\ UNCHANGED <<msg_sender, trans>>
       ELSE /\ Len(msg_sender[To(t)]) < buffer_size
            /\ msg_sender' = [msg_sender EXCEPT ![To(t)] = Append(@, trans[t].message)]
            /\ trans' = [trans EXCEPT ![t] = [pc |-> "read", message |-> Nil, inj |-> Nil]]
            /\ UNCHANGED process
    /\ UNCHANGED <<CONNECTION_POOL, extVars, req, task, connVars, msg_reciver,
                   reader, writer, sockVars>>

(***************************************************************************)
(* websocket_handler, lines 291-308.                                       *)
(***************************************************************************)
\* a request for path p arrives; line 296: if CONNECTION_POOL[path] != nil
HandlerCheck(r, p) ==
    /\ Running /\ req[r].pc = "none"
    /\ \A q \in Requests : q < r => req[q].pc # "none"
    /\ req' = [req EXCEPT ![r] =
            [pc |-> IF p \in CONNECTION_POOL THEN "declined" ELSE "upgrade",
             path |-> p]]
    /\ UNCHANGED <<process, CONNECTION_POOL, extVars, task, connVars, chanVars,
                   reader, writer, trans, sockVars>>

\* lines 301-307: upgrader.Upgrade; log.Fatal on an error, which exits the
\* process; otherwise NewMyWSConnection and go start_transmiter_task
HandlerUpgrade(r, ok) ==
    /\ Running /\ req[r].pc = "upgrade"
    /\ IF ok
       THEN /\ req' = [req EXCEPT ![r].pc = "spawned"]
            /\ task' = [task EXCEPT ![r] = "dial"]
            /\ UNCHANGED process
       ELSE /\ req' = [req EXCEPT ![r].pc = "upgrade failed"]
            /\ process' = "exit: log.Fatal"
            /\ UNCHANGED task
    /\ UNCHANGED <<CONNECTION_POOL, extVars, connVars, chanVars,
                   reader, writer, trans, sockVars>>

(***************************************************************************)
(* start_transmiter_task, lines 310-350.                                   *)
(***************************************************************************)
\* start_transmiter_task without the deferred devtools.Close()
TaskDial_without_close(r, ok) ==
    /\ Running /\ task[r] = "dial"
    /\ IF ok
       THEN /\ task' = [task EXCEPT ![r] = "wait"]
            /\ reader' = [c \in Conns |->
                    IF c[1] = r THEN [pc |-> "read", msg |-> Nil] ELSE reader[c]]
            /\ writer' = [c \in Conns |->
                    IF c[1] = r THEN [pc |-> "recv", msg |-> Nil] ELSE writer[c]]
            /\ trans' = [t \in Transmitters |->
                    IF t[1] = r THEN [trans[t] EXCEPT !.pc = "read"] ELSE trans[t]]
       ELSE /\ task' = [task EXCEPT ![r] = "done"]
            /\ UNCHANGED <<reader, writer, trans>>
    /\ UNCHANGED <<process, CONNECTION_POOL, extVars, req, connVars, chanVars, sockVars>>

\* lines 317-343: Dial; on an error return, and the deferred
\* devtools.Close() runs; otherwise the web connection, go start() on both
\* connections and go transimiter for both directions.  Nothing is put in
\* CONNECTION_POOL.
TaskDial(r, ok) ==
    /\ Running /\ task[r] = "dial"
    /\ IF ok
       THEN /\ task' = [task EXCEPT ![r] = "wait"]
            /\ reader' = [c \in Conns |->
                    IF c[1] = r THEN [pc |-> "read", msg |-> Nil] ELSE reader[c]]
            /\ writer' = [c \in Conns |->
                    IF c[1] = r THEN [pc |-> "recv", msg |-> Nil] ELSE writer[c]]
            /\ trans' = [t \in Transmitters |->
                    IF t[1] = r THEN [trans[t] EXCEPT !.pc = "read"] ELSE trans[t]]
            /\ UNCHANGED connVars
       ELSE /\ task' = [task EXCEPT ![r] = "done"]
            /\ Close(DevtoolsOf(r))
            /\ UNCHANGED <<reader, writer, trans>>
    /\ UNCHANGED <<process, CONNECTION_POOL, extVars, req, chanVars, sockVars>>

\* wg.Wait() with one wg.Add(1) missing: it returns after the first wg.Done()
TaskWait_for_one_loop(r) ==
    /\ Running /\ task[r] = "wait"
    /\ \E d \in Dirs : trans[<<r, d>>].pc = "done"
    /\ task' = [task EXCEPT ![r] = "delete"]
    /\ UNCHANGED <<process, CONNECTION_POOL, extVars, req, connVars, chanVars,
                   reader, writer, trans, sockVars>>

\* line 345: wg.Wait() returns when both transmitters have called wg.Done()
TaskWait(r) ==
    /\ Running /\ task[r] = "wait"
    /\ \A d \in Dirs : trans[<<r, d>>].pc = "done"
    /\ task' = [task EXCEPT ![r] = "delete"]
    /\ UNCHANGED <<process, CONNECTION_POOL, extVars, req, connVars, chanVars,
                   reader, writer, trans, sockVars>>

\* line 348: delete(CONNECTION_POOL, path) begins.  No lock is taken: the
\* map is a plain Go map, and the delete, a write to it, lasts from this
\* step to the next one of the task, while the other goroutines run on.
TaskDeleteBegin(r) ==
    /\ Running /\ task[r] = "delete"
    /\ task' = [task EXCEPT ![r] = "deleting"]
    /\ UNCHANGED <<process, CONNECTION_POOL, extVars, req, connVars, chanVars,
                   reader, writer, trans, sockVars>>

\* line 348: delete(CONNECTION_POOL, path) takes effect and ends, and the
\* deferred web.Close() and devtools.Close() (lines 323, 311) run as the
\* function returns
TaskDelete(r) ==
    /\ Running /\ task[r] = "deleting"
    /\ CONNECTION_POOL' = CONNECTION_POOL \ {req[r].path}
    /\ chan_closed' = [c \in Conns |->
            IF c[1] = r /\ ~is_closed[c]
            THEN [msg_sender |-> TRUE, msg_reciver |-> TRUE] ELSE chan_closed[c]]
    /\ is_closed' = [c \in Conns |-> (c[1] = r) \/ is_closed[c]]
    /\ conn_closed' = [c \in Conns |-> (c[1] = r) \/ conn_closed[c]]
    /\ \A c \in Conns : c[1] = r => m[c] = "free"
    /\ UNCHANGED <<lockVars, extVars>>
    /\ task' = [task EXCEPT ![r] = "done"]
    /\ UNCHANGED <<process, req, chanVars, reader, writer, trans, sockVars>>

(***************************************************************************)
(* The specifications.                                                     *)
(***************************************************************************)
\* one step of the reader goroutine or of the writer loop of connection c;
\* the peers send at most n frames, each taken from frames
ConnStep(c, n, frames) ==
    \/ /\ CountRead(Conns) < n
       /\ \E f \in frames : ReaderRead(c, f)
    \/ ReaderReadError(c) \/ ReaderSend(c)
    \/ WriterRound(c)

TransStep(t) ==
    \/ ReadMessageCheck(t) \/ ReadMessageRecv(t)
    \/ HandleFromDevtools(t) \/ HandleFromWeb(t) \/ InjectSend(t)
    \/ WriteMessageCheck(t) \/ WriteMessageSend(t)

TaskStep(r) ==
    \/ \E ok \in BOOLEAN : TaskDial(r, ok)
    \/ TaskWait(r) \/ TaskDeleteBegin(r) \/ TaskDelete(r)

HandlerStep(r) ==
    \/ \E p \in Paths : HandlerCheck(r, p)
    \/ \E ok \in BOOLEAN : HandlerUpgrade(r, ok)

\* The server with MaxRequests requests, any two of them possibly for the
\* same path.
Next ==
    \/ \E r \in Requests : HandlerStep(r)
    \/ \E r \in Requests : TaskStep(r)
    \/ \E t \in Transmitters : TransStep(t)
    \/ \E c \in Conns : ConnStep(c, MaxFrames, Input(c[2]))
    \/ \E c \in Conns : SocketFail(c)

Spec == Init /\ [][Next]_vars

\* One session on its own, with more traffic.
SessionNext ==
    \/ HandlerStep(1)
    \/ TaskStep(1)
    \/ \E d \in Dirs : TransStep(<<1, d>>)
    \/ \E sd \in Sides : ConnStep(<<1, sd>>, SessionFrames, Input(sd))
    \/ \E sd \in Sides : SocketFail(<<1, sd>>)

SessionSpec == Init /\ [][SessionNext]_vars

\* One running session and one frame of any shape: the state after
\* HandlerCheck, HandlerUpgrade and TaskDial of request 1 have succeeded.
HandlerInit ==
    /\ process = "running"
    /\ CONNECTION_POOL = {}
    /\ \E p \in Paths :
        req = [r \in Requests |->
                IF r = 1 THEN [pc |-> "spawned", path |-> p]
                ELSE [pc |-> "none", path |-> ""]]
    /\ task = [r \in Requests |-> IF r = 1 THEN "wait" ELSE "off"]
    /\ is_closed = [c \in Conns |-> FALSE]
    /\ chan_closed = [c \in Conns |-> [msg_sender |-> FALSE, msg_reciver |-> FALSE]]
    /\ conn_closed = [c \in Conns |-> FALSE]
    /\ m = [c \in Conns |-> "free"]
    /\ closer = [k \in Closers |-> "idle"]
    /\ user = [u \in Users |-> [pc |-> "idle", after |-> FALSE, calls |-> 0]]
    /\ msg_sender = [c \in Conns |-> << >>]
    /\ msg_reciver = [c \in Conns |-> << >>]
    /\ reader = [c \in Conns |->
            [pc |-> IF c[1] = 1 THEN "read" ELSE "off", msg |-> Nil]]
    /\ writer = [c \in Conns |->
            [pc |-> IF c[1] = 1 THEN "recv" ELSE "off", msg |-> Nil]]
    /\ trans = [t \in Transmitters |->
            [pc |-> IF t[1] = 1 THEN "read" ELSE "off", message |-> Nil, inj |-> Nil]]
    /\ sock_failed = [c \in Conns |-> FALSE]
    /\ sock_read = [c \in Conns |-> << >>]
    /\ sock_written = [c \in Conns |-> << >>]
    /\ forwarded = [c \in Conns |-> << >>]
    /\ ExtensionInit

HandlerNext ==
    \/ TaskWait(1) \/ TaskDeleteBegin(1) \/ TaskDelete(1)
    \/ \E d \in Dirs : TransStep(<<1, d>>)
    \/ \E sd \in Sides : ConnStep(<<1, sd>>, HandlerFrames, AllFrames(sd))
    \/ \E sd \in Sides : SocketFail(<<1, sd>>)

HandlerSpec == HandlerInit /\ [][HandlerNext]_vars

(***************************************************************************)
(* Close(), is_Closed(), WriteMessage and ReadMessage statement by         *)
(* statement, with the mutex m, on one connection that any of its tasks    *)
(* may close at any time.                                                  *)
(***************************************************************************)
\* Close() without the mutex: Lock() that does not wait
CloseLock_without_mutex(c, k) ==
    /\ Running /\ closer[k] = "idle"
    /\ m' = [m EXCEPT ![c] = k]
    /\ closer' = [closer EXCEPT ![k] = "test"]
    /\ UNCHANGED <<process, CONNECTION_POOL, extVars, taskVars, is_closed, chan_closed,
                   conn_closed, user, chanVars, sockVars>>

\* line 177: c.m.Lock(), the first statement of Close(); it blocks while
\* another call holds m
CloseLock(c, k) ==
    /\ Running /\ closer[k] = "idle"
    /\ m[c] = "free"
    /\ m' = [m EXCEPT ![c] = k]
    /\ closer' = [closer EXCEPT ![k] = "test"]
    /\ UNCHANGED <<process, CONNECTION_POOL, extVars, taskVars, is_closed, chan_closed,
                   conn_closed, user, chanVars, sockVars>>

\* line 179: if !c.is_closed
CloseTest(c, k) ==
    /\ Running /\ closer[k] = "test"
    /\ closer' = [closer EXCEPT ![k] =
            IF ~is_closed[c] THEN "close msg_sender" ELSE "conn.Close"]
    /\ UNCHANGED <<process, CONNECTION_POOL, extVars, taskVars, is_closed, chan_closed,
                   conn_closed, m, user, chanVars, sockVars>>

\* line 181: close(c.msg_sender); to close a closed channel panics
CloseSender(c, k) ==
    /\ Running /\ closer[k] = "close msg_sender"
    /\ IF chan_closed[c].msg_sender
       THEN /\ process' = "panic: close of closed channel"
            /\ UNCHANGED <<chan_closed, closer>>
       ELSE /\ chan_closed' = [chan_closed EXCEPT ![c].msg_sender = TRUE]
            /\ closer' = [closer EXCEPT ![k] = "close msg_reciver"]
            /\ UNCHANGED process
    /\ UNCHANGED <<CONNECTION_POOL, extVars, taskVars, is_closed, conn_closed, m, user,
                   chanVars, sockVars>>

\* Close() that leaves msg_reciver open
CloseReciver_skipped(c, k) ==
    /\ Running /\ closer[k] = "close msg_reciver"
    /\ closer' = [closer EXCEPT ![k] = "is_closed = true"]
    /\ UNCHANGED <<process, CONNECTION_POOL, extVars, taskVars, is_closed, chan_closed,
                   conn_closed, m, user, chanVars, sockVars>>

\* line 182: close(c.msg_reciver)
CloseReciver(c, k) ==
    /\ Running /\ closer[k] = "close msg_reciver"
    /\ IF chan_closed[c].msg_reciver
       THEN /\ process' = "panic: close of closed channel"
            /\ UNCHANGED <<chan_closed, closer>>
       ELSE /\ chan_closed' = [chan_closed EXCEPT ![c].msg_reciver = TRUE]
            /\ closer' = [closer EXCEPT ![k] = "is_closed = true"]
            /\ UNCHANGED process
    /\ UNCHANGED <<CONNECTION_POOL, extVars, taskVars, is_closed, conn_closed, m, user,
                   chanVars, sockVars>>

\* line 183: c.is_closed = true
CloseFlag(c, k) ==
    /\ Running /\ closer[k] = "is_closed = true"
    /\ is_closed' = [is_closed EXCEPT ![c] = TRUE]
    /\ closer' = [closer EXCEPT ![k] = "conn.Close"]
    /\ UNCHANGED <<process, CONNECTION_POOL, extVars, taskVars, chan_closed,
                   conn_closed, m, user, chanVars, sockVars>>

\* line 185: c.conn.Close()
CloseSocket(c, k) ==
    /\ Running /\ closer[k] = "conn.Close"
    /\ conn_closed' = [conn_closed EXCEPT ![c] = TRUE]
    /\ closer' = [closer EXCEPT ![k] = "unlock"]
    /\ UNCHANGED <<process, CONNECTION_POOL, extVars, taskVars, is_closed, chan_closed,
                   m, user, chanVars, sockVars>>

\* line 178: the deferred c.m.Unlock(), and Close() returns
CloseUnlock(c, k) ==
    /\ Running /\ closer[k] = "unlock"
    /\ m' = [m EXCEPT ![c] = "free"]
    /\ closer' = [closer EXCEPT ![k] = "done"]
    /\ UNCHANGED <<process, CONNECTION_POOL, extVars, taskVars, is_closed, chan_closed,
                   conn_closed, user, chanVars, sockVars>>

\* A task calls c.WriteMessage or c.ReadMessage (line 159 / 168).  after
\* records whether is_closed was true when the call began.
UserCall(c, u) ==
    /\ Running /\ user[u].pc = "idle"
    /\ user[u].calls < MaxCalls
    /\ user' = [user EXCEPT ![u] =
            [pc |-> "lock", after |-> is_closed[c], calls |-> @.calls + 1]]
    /\ UNCHANGED <<process, CONNECTION_POOL, extVars, taskVars, is_closed, chan_closed,
                   conn_closed, m, closer, chanVars, sockVars>>

\* is_Closed(), line 117: c.m.Lock()
UserLock(c, u) ==
    /\ Running /\ user[u].pc = "lock"
    /\ m[c] = "free"
    /\ m' = [m EXCEPT ![c] = u]
    /\ user' = [user EXCEPT ![u].pc = "locked"]
    /\ UNCHANGED <<process, CONNECTION_POOL, extVars, taskVars, is_closed, chan_closed,
                   conn_closed, closer, chanVars, sockVars>>

\* is_Closed(), lines 118-119: return c.is_closed and the deferred Unlock();
\* then line 160 / 169: if the result is true, return an error
UserIsClosed(c, u) ==
    /\ Running /\ user[u].pc = "locked"
    /\ m' = [m EXCEPT ![c] = "free"]
    /\ user' = [user EXCEPT ![u].pc = IF is_closed[c] THEN "error" ELSE "channel"]
    /\ UNCHANGED <<process, CONNECTION_POOL, extVars, taskVars, is_closed, chan_closed,
                   conn_closed, closer, chanVars, sockVars>>

\* WriteMessage, line 163: c.msg_sender <- msg
UserSend(c) ==
    /\ Running /\ user["WriteMessage"].pc = "channel"
    /\ IF chan_closed[c].msg_sender
       THEN /\ process' = "panic: send on closed channel"
            /\ UNCHANGED <<msg_sender, user>>
       ELSE /\ Len(msg_sender[c]) < buffer_size
            /\ msg_sender' = [msg_sender EXCEPT ![c] = Append(@, GetDocument)]
            /\ user' = [user EXCEPT !["WriteMessage"].pc = "ok"]
            /\ UNCHANGED process
    /\ UNCHANGED <<CONNECTION_POOL, extVars, taskVars, is_closed, chan_closed,
                   conn_closed, m, closer, msg_reciver, sockVars>>

\* ReadMessage, line 172: msg = <-c.msg_reciver; it blocks on an empty
\* channel until the channel is closed
UserRecv(c) ==
    /\ Running /\ user["ReadMessage"].pc = "channel"
    /\ msg_reciver[c] # << >> \/ chan_closed[c].msg_reciver
    /\ msg_reciver' = [msg_reciver EXCEPT ![c] = IF @ = << >> THEN @ ELSE Tail(@)]
    /\ user' = [user EXCEPT !["ReadMessage"].pc = "ok"]
    /\ UNCHANGED <<process, CONNECTION_POOL, extVars, taskVars, is_closed, chan_closed,
                   conn_closed, m, closer, msg_sender, sockVars>>

\* lines 161, 164, 170, 173: the call returns, with the error or without
UserReturn(c, u) ==
    /\ Running /\ user[u].pc \in {"error", "ok"}
    /\ user' = [user EXCEPT ![u].pc = "idle", ![u].after = FALSE]
    /\ UNCHANGED <<process, CONNECTION_POOL, extVars, taskVars, is_closed, chan_closed,
                   conn_closed, m, closer, chanVars, sockVars>>

CloseStep(c, k) ==
    \/ CloseLock(c, k) \/ CloseTest(c, k) \/ CloseSender(c, k)
    \/ CloseReciver(c, k) \/ CloseFlag(c, k) \/ CloseSocket(c, k)
    \/ CloseUnlock(c, k)

UserStep(c, u) ==
    \/ UserCall(c, u) \/ UserLock(c, u) \/ UserIsClosed(c, u)
    \/ UserReturn(c, u)

\* The devtools connection of request 1 as NewMyWSConnection made it, the
\* five calls of Close() on it and the callers of its two methods.
CloseNext ==
    \/ \E k \in Closers : CloseStep(DevtoolsOf(1), k)
    \/ \E u \in Users : UserStep(DevtoolsOf(1), u)
    \/ UserSend(DevtoolsOf(1))
    \/ UserRecv(DevtoolsOf(1))

CloseSpec == Init /\ [][CloseNext]_vars

(***************************************************************************)
(* The extension, OpenDevtoolsPage/background.js.  Its listeners run on    *)
(* one thread: a listener runs from its start, or from the point where it  *)
(* was suspended, to its next await of a promise that some later event     *)
(* settles.  An await of a promise that is already settled (the calls of   *)
(* enableMyDebugger, which has no await inside) resumes before any other   *)
(* event is delivered and is not a step of its own.                        *)
(***************************************************************************)
serverVars == <<process, CONNECTION_POOL, connVars, chanVars, sockVars, taskVars>>

\* the runs of the action.onClicked listener start in the order 1, 2, ...
NextClick(k) == click[k].pc = "idle" /\ \A j \in 1..(k - 1) : click[j].pc # "idle"

\* action.onClicked, from the click to the fetch of getTargetId: the tab
\* that has a debugger window, or is not a good tab, is refused.
Clicked(k, t, isGoodTab) ==
    /\ NextClick(k)
    /\ t \in tabs
    /\ IF tabToDebugger[t] # 0 \/ ~isGoodTab
          THEN click' = [click EXCEPT ![k] = [pc |-> "refused", tab |-> t]]
          ELSE click' = [click EXCEPT ![k] = [pc |-> "getTargetId", tab |-> t]]
    /\ UNCHANGED <<tabToDebugger, debuggerToTab, tabs, windows, serverVars>>

\* action.onClicked resumed with the result of getTargetId: frameId 0 ends
\* the run, any other makes it call chrome.windows.create.
GotTargetId(k, frameId) ==
    /\ click[k].pc = "getTargetId"
    /\ IF frameId = 0
          THEN click' = [click EXCEPT ![k].pc = "failed"]
          ELSE click' = [click EXCEPT ![k].pc = "create"]
    /\ UNCHANGED <<tabToDebugger, debuggerToTab, tabs, windows, serverVars>>

\* chrome.windows.create settles and action.onClicked resumes with win:
\* the window k records itself in both maps, no window records nothing.
WindowCreated(k, win) ==
    /\ click[k].pc = "create"
    /\ IF win
          THEN /\ windows' = windows \cup {k}
               /\ tabToDebugger' = [tabToDebugger EXCEPT ![click[k].tab] = k]
               /\ debuggerToTab' = [debuggerToTab EXCEPT ![k] = click[k].tab]
               /\ click' = [click EXCEPT ![k].pc = "opened"]
          ELSE /\ click' = [click EXCEPT ![k].pc = "failed"]
               /\ UNCHANGED <<tabToDebugger, debuggerToTab, windows>>
    /\ UNCHANGED <<tabs, serverVars>>

\* tabs.onRemoved: the tab is closed; the window the map has for it is
\* removed and both entries are deleted.
TabRemoved(t) ==
    /\ t \in tabs
    /\ tabs' = tabs \ {t}
    /\ IF tabToDebugger[t] # 0
          THEN /\ windows' = windows \ {tabToDebugger[t]}
               /\ debuggerToTab' = [debuggerToTab EXCEPT ![tabToDebugger[t]] = 0]
               /\ tabToDebugger' = [tabToDebugger EXCEPT ![t] = 0]
          ELSE UNCHANGED <<tabToDebugger, debuggerToTab, windows>>
    /\ UNCHANGED <<click, serverVars>>

\* windows.onRemoved: the user closes the debugger window w; the entry of
\* w and the entry of the tab it names are deleted.
WindowRemoved(w) ==
    /\ w \in windows
    /\ windows' = windows \ {w}
    /\ IF debuggerToTab[w] # 0
          THEN /\ tabToDebugger' = [tabToDebugger EXCEPT ![debuggerToTab[w]] = 0]
               /\ debuggerToTab' = [debuggerToTab EXCEPT ![w] = 0]
          ELSE UNCHANGED <<tabToDebugger, debuggerToTab>>
    /\ UNCHANGED <<tabs, click, serverVars>>

ExtensionNext ==
    \/ \E k \in Clicks, t \in Tabs, isGoodTab \in BOOLEAN : Clicked(k, t, isGoodTab)
    \/ \E k \in Clicks, frameId \in 0..1 : GotTargetId(k, frameId)
    \/ \E k \in Clicks, win \in BOOLEAN : WindowCreated(k, win)
    \/ \E t \in Tabs : TabRemoved(t)
    \/ \E w \in Clicks : WindowRemoved(w)

ExtensionSpec == Init /\ [][ExtensionNext]_vars

(***************************************************************************)
(* Properties.                                                             *)
(***************************************************************************)
\* the session of request r has been dialled and its loops have not both ended
Active(r) ==
    /\ task[r] = "wait"
    /\ \E d \in Dirs : trans[<<r, d>>].pc # "done"

\* a is a subsequence of b
RECURSIVE IsSubseq(_, _)
IsSubseq(a, b) ==
    IF a = << >> THEN TRUE
    ELSE IF b = << >> THEN FALSE
    ELSE IF Head(a) = Head(b) THEN IsSubseq(Tail(a), Tail(b))
    ELSE IsSubseq(a, Tail(b))

\* C1: at most one session per target path is active at any instant, and a
\* request for a path that arrives while a session for that path is active
\* is declined.
AtMostOneSessionPerTarget ==
    /\ [](\A r1, r2 \in Requests :
            (r1 # r2 /\ Active(r1) /\ Active(r2)) => req[r1].path # req[r2].path)
    /\ [][\A r \in Requests : \A p \in Paths :
            (HandlerCheck(r, p) /\ \E q \in Requests : Active(q) /\ req[q].path = p)
                => req'[r].pc = "declined"]_vars

\* C2: whenever a transmitter loop holds a frame it has read, the registry
\* has an entry for the path of its session.
RegistrationPrecedesForwarding ==
    \A t \in Transmitters :
        (trans[t].pc \in {"handle", "inject", "write", "send"} /\ trans[t].message # Nil)
            => req[t[1]].path \in CONNECTION_POOL

\* C3: no task ever sends on a channel that Close has closed.
NoSendOnClosedChannel == process # "panic: send on closed channel"

\* C4: a ReadMessage that returns without an error returns a frame that the
\* reader task received from the socket.
ReadMessageReturnsSocketFrame ==
    \A t \in Transmitters :
        trans[t].pc = "handle" =>
            \E i \in 1..Len(sock_read[From(t)]) :
                sock_read[From(t)][i] = trans[t].message

\* the frames of written that the proxy did not inject
NonInjected(written) ==
    SelectSeq(written, LAMBDA f : f \notin {StepOutCommand, ResumeCommand})

\* what handle_msg_from_devtools makes of each frame of read
RECURSIVE Rewritten(_)
Rewritten(read) ==
    IF read = << >> THEN << >>
    ELSE <<handle_msg_from_devtools(Head(read))>> \o Rewritten(Tail(read))

\* C5: in each direction the non-injected frames written to the destination
\* socket are a subsequence of the frames read from the source socket (a
\* frame the devtools handler rewrote counts as the frame it was read as).
OrderPreservation ==
    \A r \in Requests :
        /\ IsSubseq(sock_written[DevtoolsOf(r)], sock_read[WebOf(r)])
        /\ IsSubseq(NonInjected(sock_written[WebOf(r)]),
                    Rewritten(sock_read[DevtoolsOf(r)]))

\* both connections closed, both loops ended, the session task past its
\* join, no registry entry
TornDown(r) ==
    /\ is_closed[DevtoolsOf(r)] /\ is_closed[WebOf(r)]
    /\ \A d \in Dirs : trans[<<r, d>>].pc = "done"
    /\ task[r] = "done"
    /\ req[r].path \notin CONNECTION_POOL

\* C6: once a socket of a running session has failed, the session does not
\* come to rest before it is torn down (every task being scheduled while it
\* can take a step, the cascade completes).
CloseCascadeCompletes ==
    \A r \in Requests :
        (/\ task[r] \in {"wait", "delete", "deleting"}
         /\ sock_failed[DevtoolsOf(r)] \/ sock_failed[WebOf(r)]
         /\ ~ENABLED SessionNext)
            => TornDown(r)

\* C7: a failed upgrade of one request leaves the process, and with it every
\* active session, running.
UpgradeErrorIsolated ==
    \A r, q \in Requests :
        (req[r].pc = "upgrade failed" /\ Active(q)) => process = "running"

\* the transmitter loop that reads the web side of the one session
WebToDevtools == <<1, "web -> devtools">>

\* a Debugger.paused frame of a debugger statement without "id":0
Qualifying(msg) ==
    /\ ~Contains(msg, TokId0)
    /\ ~Unmarshal(msg).err
    /\ Unmarshal(msg).Method = TokPaused
    /\ Unmarshal(msg).Params.Reason = TokReasonOther
    /\ Unmarshal(msg).Params.HitBreakpoints = << >>

\* the command the paused-handling rule prescribes for a qualifying frame
Prescribed(msg) ==
    LET callFrames == Unmarshal(msg).Params.CallFrames IN
    IF callFrames # << >> /\ callFrames[1] = "lovedebug"
    THEN <<TokId0, TokStepOut>> ELSE <<TokId0, TokResume>>

\* C8: for a qualifying frame handled while the web connection is open, the
\* handler goes on to enqueue the prescribed command, and the enqueueing
\* puts exactly that command on the web connection, nothing on devtools,
\* and drops the frame.
PausedHandlingRule ==
    /\ [][(HandleFromWeb(WebToDevtools)
            /\ Qualifying(trans[WebToDevtools].message)
            /\ ~is_closed[WebOf(1)])
          => /\ process' = "running"
             /\ trans'[WebToDevtools].pc = "inject"
             /\ trans'[WebToDevtools].inj = Prescribed(trans[WebToDevtools].message)]_vars
    /\ [][InjectSend(WebToDevtools)
          => /\ process' = "running"
             /\ msg_sender'[WebOf(1)] =
                    Append(msg_sender[WebOf(1)], trans[WebToDevtools].inj)
             /\ msg_sender'[DevtoolsOf(1)] = msg_sender[DevtoolsOf(1)]
             /\ trans'[WebToDevtools].pc = "read"]_vars

\* a frame without "id":0 that is no Debugger.paused of a debugger statement
PassingThrough(msg) ==
    /\ ~Contains(msg, TokId0)
    /\ \/ Unmarshal(msg).err
       \/ Unmarshal(msg).Method # TokPaused
       \/ Unmarshal(msg).Params.Reason # TokReasonOther
       \/ Unmarshal(msg).Params.HitBreakpoints # << >>

\* the frames with which the proxy holds or has written toward side sd
Toward(sd) ==
    LET c == <<1, sd>>
        t == IF sd = "devtools" THEN WebToDevtools ELSE <<1, "devtools -> web">>
        held == IF trans[t].pc \in {"write", "send"} THEN {trans[t].message} ELSE {}
        injected == IF trans[WebToDevtools].pc = "inject" /\ sd = "web"
                    THEN {trans[WebToDevtools].inj} ELSE {}
    IN  held \cup injected
        \cup {msg_sender[c][i] : i \in 1..Len(msg_sender[c])}
        \cup {sock_written[c][i] : i \in 1..Len(sock_written[c])}

\* C9: a web-side frame that is no Debugger.paused of a debugger statement
\* (and has no "id":0) leaves the handler unchanged and to be forwarded,
\* with nothing enqueued; when such a frame is all the traffic, what goes
\* toward devtools is that frame and the proxy injects nothing toward web.
RealPausesPassThrough ==
    /\ [][(HandleFromWeb(WebToDevtools) /\ PassingThrough(trans[WebToDevtools].message))
          => /\ trans'[WebToDevtools].pc = "write"
             /\ trans'[WebToDevtools].message = trans[WebToDevtools].message
             /\ msg_sender' = msg_sender
             /\ process' = process]_vars
    /\ [](LET read == sock_read[WebOf(1)] IN
            (Len(read) = 1 /\ PassingThrough(read[1]))
                => /\ Toward("devtools") \subseteq {read[1], Nil}
                   /\ Toward("web") \cap {StepOutCommand, ResumeCommand} = {})

\* C9 witness: devtools has been written a Debugger.paused frame with a hit
\* breakpoint, byte for byte as the web side sent it.
RealPauseForwarded ==
    LET f == <<TokPaused, TokReasonOther, TokHitBp1, TokFramesTrap>> IN
    /\ PassingThrough(f)
    /\ sock_read[WebOf(1)] = <<f>>
    /\ sock_written[DevtoolsOf(1)] = <<f>>
    /\ Toward("web") = {}

\* C10: no frame with "id":0 goes toward devtools, and the handler drops
\* such a frame at once: nothing is enqueued and nothing injected, whatever
\* else the frame is.
EchoDrop ==
    /\ [](\A f \in Toward("devtools") : ~Contains(f, TokId0))
    /\ [][(HandleFromWeb(WebToDevtools) /\ Contains(trans[WebToDevtools].message, TokId0))
          => /\ trans'[WebToDevtools].pc = "read"
             /\ trans'[WebToDevtools].inj = Nil
             /\ msg_sender' = msg_sender
             /\ process' = process]_vars

\* C10 witness: the handler has dropped a frame that has "id":0 only after
\* its other members and is otherwise a qualifying Debugger.paused frame.
EchoOfPausedDropped ==
    LET f == <<TokPaused, TokReasonOther, TokHitNone, TokFramesTrap, TokId0>> IN
    /\ sock_read[WebOf(1)] = <<f>>
    /\ reader[WebOf(1)].pc = "read"
    /\ msg_reciver[WebOf(1)] = << >>
    /\ trans[WebToDevtools].pc = "read"
    /\ ~is_closed[WebOf(1)]
    /\ Toward("devtools") = {} /\ Toward("web") = {}

\* frame f is among the frames of the sequence read
ReadFrom(f, read) == \E j \in 1..Len(read) : read[j] = f

\* C11: every frame written to the web socket is a frame read from the
\* devtools socket (as the devtools handler left it) or the literal the
\* paused-handling rule prescribes for a qualifying frame read from the web
\* socket, and every frame written to the devtools socket was read from the
\* web socket: the proxy originates nothing else.
InjectionIdConvention ==
    \A r \in Requests :
        /\ \A i \in 1..Len(sock_written[WebOf(r)]) :
            LET f == sock_written[WebOf(r)][i] IN
            \/ ReadFrom(f, Rewritten(sock_read[DevtoolsOf(r)]))
            \/ /\ f \in {StepOutCommand, ResumeCommand}
               /\ \E j \in 1..Len(sock_read[WebOf(r)]) :
                    /\ Qualifying(sock_read[WebOf(r)][j])
                    /\ Prescribed(sock_read[WebOf(r)][j]) = f
        /\ \A i \in 1..Len(sock_written[DevtoolsOf(r)]) :
            ReadFrom(sock_written[DevtoolsOf(r)][i], sock_read[WebOf(r)])

\* the web -> devtools handler of session r has panicked at CallFrames[0]
HandlerPanicked(r) ==
    /\ process = "panic: index out of range"
    /\ trans[<<r, "web -> devtools">>].pc = "handle"
    /\ handle_msg_from_web(trans[<<r, "web -> devtools">>].message) = "panic"

\* C12: when the web -> devtools handler of one session panics, every other
\* session that is active stays so and the process keeps running.
HandlerPanicTerminalForSessionOnly ==
    \A r, q \in Requests :
        (HandlerPanicked(r) /\ q # r /\ Active(q)) => process = "running"

\* the connection state Close() leaves
Closed(c) ==
    /\ is_closed[c] /\ conn_closed[c]
    /\ chan_closed[c].msg_sender /\ chan_closed[c].msg_reciver

\* C13: is_closed never goes back to false; whenever no call holds the
\* mutex, is_closed implies that both channels are closed; and a
\* WriteMessage or ReadMessage call that began when is_closed was true
\* returns the error and never reaches its channel operation.
ClosedMonotonicAndComplete ==
    /\ [][\A c \in Conns : is_closed[c] => is_closed'[c]]_vars
    /\ [](\A c \in Conns :
            (m[c] = "free" /\ is_closed[c])
                => chan_closed[c].msg_sender /\ chan_closed[c].msg_reciver)
    /\ [](\A u \in Users : user[u].after => user[u].pc \in {"lock", "locked", "error"})
    /\ [][\A u \in Users :
            (user[u].after /\ user'[u].pc = "idle")
                => /\ user[u].pc = "error"
                   /\ chanVars' = chanVars]_vars

\* C13 witness: after Close() has returned, a WriteMessage and a ReadMessage
\* call that began since have both returned the error.
ClosedCallsRefused ==
    /\ \E k \in Closers : closer[k] = "done"
    /\ m[DevtoolsOf(1)] = "free" /\ Closed(DevtoolsOf(1))
    /\ \A u \in Users : user[u].after /\ user[u].pc = "error"
    /\ msg_sender[DevtoolsOf(1)] = << >>

\* C14: however the calls of Close() interleave, no call closes a closed
\* channel, and once one call has returned the connection is closed and
\* the other calls change nothing of it.
IdempotentClose ==
    /\ [](process # "panic: close of closed channel")
    /\ []((\E k \in Closers : closer[k] = "done") => Closed(DevtoolsOf(1)))
    /\ [][(\E k \in Closers : closer[k] = "done")
            => <<is_closed, chan_closed, conn_closed>>'
                 = <<is_closed, chan_closed, conn_closed>>]_vars

\* C14 witness: all five calls of Close() have returned, the process runs
\* and the connection is closed.
AllCloseCallsReturned ==
    /\ \A k \in Closers : closer[k] = "done"
    /\ process = "running"
    /\ Closed(DevtoolsOf(1))

\* C15: no two tasks are inside the registry at the same time with one of
\* them writing: no two deletes overlap, and no existence check of the
\* acceptor falls within a delete.
RegistryAccessSerialized ==
    /\ [](\A r, q \in Requests :
            (task[r] = "deleting" /\ task[q] = "deleting") => r = q)
    /\ [][\A r \in Requests : \A p \in Paths :
            HandlerCheck(r, p) => \A q \in Requests : task[q] # "deleting"]_vars

\* C16: when the handler is to inject stepOut or resume and the WriteMessage
\* on the web connection returns the error (the connection is closed),
\* nothing is enqueued and the loop goes on to write the frame, unchanged, to
\* devtools.
InjectionFailureFallback ==
    [][(/\ HandleFromWeb(WebToDevtools)
        /\ handle_msg_from_web(trans[WebToDevtools].message) \in {"stepOut", "resume"}
        /\ is_closed[WebOf(1)])
       => /\ trans'[WebToDevtools].pc = "write"
          /\ trans'[WebToDevtools].message = trans[WebToDevtools].message
          /\ trans'[WebToDevtools].inj = Nil
          /\ msg_sender' = msg_sender
          /\ process' = process]_vars

\* C16 witness: the web connection is closed, nothing was injected, and the
\* devtools socket has been written the Debugger.paused frame of a debugger
\* statement that the web side sent.
PausedForwardedAfterFailedInjection ==
    LET f == <<TokPaused, TokReasonOther, TokHitNone, TokFramesMine>> IN
    /\ handle_msg_from_web(f) = "stepOut"
    /\ is_closed[WebOf(1)]
    /\ sock_read[WebOf(1)] = <<f>>
    /\ sock_written[WebOf(1)] = << >> /\ msg_sender[WebOf(1)] = << >>
    /\ sock_written[DevtoolsOf(1)] = <<f>>

\* the session of request r ended at its dial: the devtools connection is
\* closed, and no task of a connection, no loop and no frame has existed
Aborted(r) ==
    /\ task[r] = "done"
    /\ Closed(DevtoolsOf(r))
    /\ \A sd \in Sides :
        /\ reader[<<r, sd>>].pc = "off" /\ writer[<<r, sd>>].pc = "off"
        /\ sock_read[<<r, sd>>] = << >> /\ sock_written[<<r, sd>>] = << >>
        /\ msg_sender[<<r, sd>>] = << >> /\ msg_reciver[<<r, sd>>] = << >>
    /\ \A d \in Dirs : trans[<<r, d>>].pc = "off"
    /\ req[r].path \notin CONNECTION_POOL

\* C17: a failed dial leaves the devtools connection closed, no connection
\* task and no loop started, no frame exchanged and no registry entry for
\* the path, and that stays so.
DialFailureAbortsCleanly ==
    /\ [][\A r \in Requests : TaskDial(r, FALSE) => Aborted(r)']_vars
    /\ [][\A r \in Requests : Aborted(r) => Aborted(r)']_vars

\* C17 witness: the dial of request 1 has failed and request 2, for the
\* same path, has a running session.
DialFailedAndAborted ==
    /\ Aborted(1)
    /\ req[2].path = req[1].path /\ Active(2)
    /\ sock_written[WebOf(2)] # << >>

\* C18: the delete of the registry entry of a session begins, and ends, only
\* when both transmitter loops of that session have terminated and both its
\* connections are closed; once the session task has returned the registry
\* has no entry for its path.
TeardownOrdering ==
    /\ [][\A r \in Requests :
            (TaskDeleteBegin(r) \/ TaskDelete(r))
                => /\ \A d \in Dirs : trans[<<r, d>>].pc = "done"
                   /\ is_closed[DevtoolsOf(r)] /\ is_closed[WebOf(r)]]_vars
    /\ [](\A r \in Requests :
            task[r] = "done" => req[r].path \notin CONNECTION_POOL)

\* C18 witness: a session that forwarded a frame to the web socket has been
\* torn down through the delete.
SessionDeletedAfterTraffic ==
    /\ task[1] = "done"
    /\ \A d \in Dirs : trans[<<1, d>>].pc = "done"
    /\ sock_written[WebOf(1)] = <<GetDocument>>
    /\ req[1].path \notin CONNECTION_POOL

\* C19: on every connection the socket is written only by a step of the
\* writer loop of start() and read only by a step of its reader goroutine,
\* and start() is launched on a connection once; the transmitter loops and
\* the handlers change the channels only.
SingleReaderSingleWriter ==
    /\ [][\A c \in Conns :
            /\ sock_written'[c] # sock_written[c] => WriterRound(c)
            /\ sock_read'[c] # sock_read[c]
                => \E f \in Input(c[2]) : ReaderRead(c, f)]_vars
    /\ [][\A c \in Conns :
            /\ (writer[c].pc # "off" /\ writer'[c].pc = "recv") => writer[c].pc = "recv"
            /\ (reader[c].pc \in {"send", "done"}) => reader'[c].pc # "off"]_vars
    /\ [][\A t \in Transmitters :
            (TransStep(t)) => sock_written' = sock_written /\ sock_read' = sock_read]_vars

\* C19 witness: the web socket has been written a frame forwarded from
\* devtools and then a command the handler injected.
ForwardedThenInjectedWritten ==
    /\ sock_read[WebOf(1)] = <<TrapPaused>>
    /\ sock_read[DevtoolsOf(1)] = <<GetDocument>>
    /\ sock_written[WebOf(1)] = <<GetDocument, ResumeCommand>>
    /\ writer[WebOf(1)].pc = "recv"

\* the frames written to the socket of c followed by those waiting in its
\* msg_sender: the frames enqueued so far, in the order of their enqueueing
Enqueued(c) == sock_written[c] \o msg_sender[c]

\* C20: on every connection a step either enqueues one frame behind all the
\* frames enqueued before, or writes to the socket the oldest frame that
\* waits, or (the writer loop returning) takes the oldest frame off without
\* writing it, after which nothing is written: the socket is written in the
\* order of enqueueing, each frame at most once.
InjectedFramesFIFO ==
    /\ [][\A c \in Conns :
            \/ /\ Enqueued(c)' = Enqueued(c)
               /\ Len(sock_written'[c]) >= Len(sock_written[c])
            \/ /\ sock_written'[c] = sock_written[c]
               /\ Len(msg_sender'[c]) = Len(msg_sender[c]) + 1
               /\ SubSeq(msg_sender'[c], 1, Len(msg_sender[c])) = msg_sender[c]
            \/ /\ sock_written'[c] = sock_written[c]
               /\ msg_sender[c] # << >> /\ msg_sender'[c] = Tail(msg_sender[c])
               /\ writer'[c].pc = "done"]_vars
    /\ [][\A c \in Conns :
            writer[c].pc = "done" => sock_written'[c] = sock_written[c]]_vars

\* C20 witness: the web socket has been written the injected command and
\* then the frame forwarded from devtools, and its channel is empty.
InjectedThenForwardedWritten ==
    /\ process = "running"
    /\ sock_written[WebOf(1)] = <<ResumeCommand, GetDocument>>
    /\ msg_sender[WebOf(1)] = << >>
    /\ sock_written[DevtoolsOf(1)] = << >>

\* a is an initial part of b
IsPrefix(a, b) == Len(a) <= Len(b) /\ SubSeq(b, 1, Len(a)) = a

\* the frame the transmitter loop toward connection c holds for it
Held(c) ==
    LET t == <<c[1], IF c[2] = "devtools" THEN "web -> devtools" ELSE "devtools -> web">>
    IN  IF trans[t].pc \in {"write", "send"} THEN <<trans[t].message>> ELSE << >>

\* the frames of seq that a socket delivered: neither injected nor nil
FromSocket(seq) ==
    SelectSeq(seq, LAMBDA f : f \notin {StepOutCommand, ResumeCommand, Nil})

\* C21 as stated: a forwarded frame written to its destination socket is
\* written in the place it was forwarded in, no other frame having been
\* written before it but the frames forwarded before it; and when the
\* session has come to rest, the process running, every forwarded frame that
\* a socket delivered has been written.
ForwardIdentity ==
    \A c \in Conns :
        /\ \A i \in 1..Len(sock_written[c]) :
            sock_written[c][i] \notin {StepOutCommand, ResumeCommand}
                => /\ i <= Len(forwarded[c])
                   /\ sock_written[c][i] = forwarded[c][i]
        /\ (process = "running" /\ ~ENABLED SessionNext)
                => Len(FromSocket(sock_written[c])) = Len(FromSocket(forwarded[c]))

\* C21 amended: the frames written to a destination socket, the injected
\* commands left aside, are the first of the frames forwarded to it, in
\* their order and unchanged; and as long as the destination connection is
\* open every frame forwarded to it is written, waits in its channel or is
\* held by the loop, once each and in that order.
ForwardedFramesWrittenInOrder ==
    \A c \in Conns :
        /\ IsPrefix(NonInjected(sock_written[c]), forwarded[c])
        /\ ~is_closed[c]
            => forwarded[c] = NonInjected(sock_written[c] \o msg_sender[c]) \o Held(c)

\* C21 witness: both frames the devtools side sent, the second rewritten by
\* the handler, have been written to the web socket, which is open.
BothForwardedFramesWritten ==
    /\ ~is_closed[WebOf(1)]
    /\ sock_read[DevtoolsOf(1)] = <<GetDocument, OverlayMessage>>
    /\ forwarded[WebOf(1)] = <<GetDocument, handle_msg_from_devtools(OverlayMessage)>>
    /\ sock_written[WebOf(1)] = forwarded[WebOf(1)]

\* the transmitter loop that reads the devtools side of the one session
DevtoolsToWeb == <<1, "devtools -> web">>

\* out is msg with its first "Paused in debugger" replaced and nothing else
FirstOccurrenceReplaced(msg, out) ==
    /\ Len(out) = Len(msg)
    /\ \E i \in 1..Len(msg) :
        /\ msg[i] = TokPausedMsg
        /\ \A j \in 1..(i - 1) : msg[j] # TokPausedMsg
        /\ out[i] = TokSurprise
        /\ \A j \in 1..Len(msg) : j # i => out[j] = msg[j]

\* C22: the devtools handler always returns a frame to forward and touches
\* no channel and no socket; the frame is the input, except that an input
\* with Overlay.setPausedInDebuggerMessage has its first "Paused in
\* debugger", if it has one, replaced and its later ones left as they are.
DevtoolsHandlerNeverInjectsOrDrops ==
    [][HandleFromDevtools(DevtoolsToWeb)
        => /\ trans'[DevtoolsToWeb].pc = "write"
           /\ trans'[DevtoolsToWeb].inj = Nil
           /\ chanVars' = chanVars /\ sock_written' = sock_written
           /\ process' = process
           /\ LET msg == trans[DevtoolsToWeb].message
                  out == trans'[DevtoolsToWeb].message
              IN  IF Contains(msg, TokOverlay) /\ Contains(msg, TokPausedMsg)
                  THEN FirstOccurrenceReplaced(msg, out)
                  ELSE out = msg]_vars

\* C22 witness: the web socket has been written an Overlay frame whose
\* first "Paused in debugger" is replaced and whose second is not.
OverlayFirstOccurrenceRewritten ==
    /\ sock_read[DevtoolsOf(1)] =
            <<<<TokId7, TokOverlay, TokResult, TokPausedMsg, TokId0, TokPausedMsg>>>>
    /\ sock_written[WebOf(1)] =
            <<<<TokId7, TokOverlay, TokResult, TokSurprise, TokId0, TokPausedMsg>>>>
    /\ msg_sender[DevtoolsOf(1)] = << >> /\ sock_written[DevtoolsOf(1)] = << >>

\* the reader goroutine and the writer loop of both connections of session
\* r have been started
Started(r) == \A sd \in Sides : reader[<<r, sd>>].pc # "off"

\* C23: when both connections of a session are closed and nothing can take
\* a step any more, the reader goroutine and the writer loop of both
\* connections have terminated (every task being scheduled while it can
\* take a step, none stays behind on a closed connection).
NoLeakedTasks ==
    \A r \in Requests :
        (/\ Started(r)
         /\ is_closed[DevtoolsOf(r)] /\ is_closed[WebOf(r)]
         /\ ~ENABLED SessionNext)
            => \A sd \in Sides :
                reader[<<r, sd>>].pc = "done" /\ writer[<<r, sd>>].pc = "done"

\* the debugger windows that are open and were opened for the tab t
WindowsOf(t) == {w \in windows : click[w].tab = t}

\* C24: tabToDebugger and debuggerToTab are mutual inverses, and no tab has
\* more than one debugger window open at the same time, after any
\* interleaving of clicks, tab removals and debugger-window removals.
ExtensionBookkeeping ==
    /\ \A t \in Tabs, w \in Clicks :
           tabToDebugger[t] = w <=> debuggerToTab[w] = t
    /\ \A t \in Tabs : Cardinality(WindowsOf(t)) <= 1

====
